---- MODULE Spec2Model ----
(***************************************************************************)
(* A model of virtual-py_detector.py: the ten probes of virtualpydetector, *)
(* the aggregator detect(), and the thread-pool process scanner            *)
(* ProcessChecks.detect_suspicious_processes.                              *)
(*                                                                         *)
(* The host (operating system, helper binaries, files, process table) is   *)
(* the environment.  Every OS call of a probe is modelled by the set of    *)
(* outcomes the call can have in Python: a value, or one of the exceptions *)
(* the call raises.  try/except is modelled with the exception hierarchy.  *)
(***************************************************************************)
EXTENDS Integers, Sequences, FiniteSets

VARIABLES
    platform,   \* platform.system() of the host
    host,       \* per OS resource: its fixed outcome, or "any" when it may change
    hostProcs,  \* the host's process table: a fixed list, or one that may change
    pc,         \* detect(): "idle", the index of the probe to run next, "returned", "raised"
    calls,      \* number of detect() calls started
    checks,     \* the list `checks` being built by detect()
    ret,        \* per probe: what it returned in this call ("none" if it has not)
    invoked,    \* per probe: how often it was invoked in this call
    last,       \* the latest probe run: the probe, what it touched, its OS call's outcome, its helper
    timedout,   \* the probes of this call whose helper process exceeded its timeout
    verdict,    \* what detect() returned ("none" before it returns)
    error,      \* the exception that left detect() ("none" if none)
    prev,       \* outcome of the previous detect() call ("none" if there was none)
    procs,      \* scanner: the process list psutil.process_iter yielded
    spc,        \* scanner: position of the calling thread
    submitted,  \* scanner: number of futures submitted so far
    task,       \* scanner: per future "unsubmitted", "queued" or "done"
    tres,       \* scanner: per future the outcome of is_suspicious
    consumed,   \* scanner: futures whose result() the caller has retrieved
    pending     \* scanner: the outcome the with-block is leaving with

vars == <<platform, host, hostProcs, pc, calls, checks, ret, invoked, last, timedout,
          verdict, error, prev, procs, spc, submitted, task, tres, consumed, pending>>

envVars    == <<platform, host, hostProcs>>
detectVars == <<pc, calls, checks, ret, invoked, last, timedout, verdict, error, prev>>
scanVars   == <<procs, spc, submitted, task, tres, consumed, pending>>

----------------------------------------------------------------------------
(* Bounds of the model.                                                    *)

MaxProcs == 3
MaxCalls == 2

----------------------------------------------------------------------------
(* Python values: outcomes of a call, exceptions, strings.                 *)

Return(v) == [kind |-> "return", value |-> v, exc |-> "none"]
Raise(e)  == [kind |-> "raise", value |-> FALSE, exc |-> e]

\* The base classes of each exception class (Python, subprocess, psutil).
Bases(e) ==
    CASE e = "FileNotFoundError"  -> {"FileNotFoundError", "OSError", "Exception"}
      [] e = "PermissionError"    -> {"PermissionError", "OSError", "Exception"}
      [] e = "OSError"            -> {"OSError", "Exception"}
      [] e = "AttributeError"     -> {"AttributeError", "Exception"}
      [] e = "CalledProcessError" -> {"CalledProcessError", "SubprocessError", "Exception"}
      [] e = "TimeoutExpired"     -> {"TimeoutExpired", "SubprocessError", "Exception"}
      [] e = "NoSuchProcess"      -> {"NoSuchProcess", "psutil.Error", "Exception"}
      [] e = "AccessDenied"       -> {"AccessDenied", "psutil.Error", "Exception"}
      [] OTHER                    -> {e}

\* `except handlers:` catches e
Catches(handlers, e) == Bases(e) \cap handlers # {}

UpperCase == <<"A","B","C","D","E","F","G","H","I","J","K","L","M",
               "N","O","P","Q","R","S","T","U","V","W","X","Y","Z">>
LowerCase == <<"a","b","c","d","e","f","g","h","i","j","k","l","m",
               "n","o","p","q","r","s","t","u","v","w","x","y","z">>

\* str.lower(), character by character
LowerChar(c) ==
    IF \E i \in 1..Len(UpperCase) : UpperCase[i] = c
    THEN LowerCase[CHOOSE i \in 1..Len(UpperCase) : UpperCase[i] = c]
    ELSE c

Lower(s) == [i \in 1..Len(s) |-> LowerChar(s[i])]

all(s) == \A i \in 1..Len(s) : s[i]

\* any(iterable) over a list of booleans
RECURSIVE any(_)
any(s) == IF s = <<>> THEN FALSE ELSE IF Head(s) THEN TRUE ELSE any(Tail(s))

----------------------------------------------------------------------------
(* The process scanner: ProcessChecks.detect_suspicious_processes.         *)

suspicious_processes ==
    { <<"v","m","t","o","o","l","s","d">>,
      <<"v","b","o","x","s","e","r","v","i","c","e">>,
      <<"w","i","r","e","s","h","a","r","k">>,
      <<"f","i","d","d","l","e","r">>,
      <<"s","a","n","d","b","o","x","i","e">>,
      <<"p","r","o","c","e","s","s","h","a","c","k","e","r">> }

\* What reading proc.info['name'] can give: a name, None (psutil's value for a
\* name it could not read), or one of the psutil errors the handler names.
ProcName(n)  == [kind |-> "name", name |-> n, exc |-> "none"]
ProcNoName   == [kind |-> "None", name |-> <<>>, exc |-> "none"]
ProcFails(e) == [kind |-> "raises", name |-> <<>>, exc |-> e]

ProcEntries ==
    { ProcName(<<"v","m","t","o","o","l","s","d">>),
      ProcName(<<"W","i","r","e","S","h","a","r","k">>),
      ProcName(<<"V","M","T","O","O","L","S","D",".","E","X","E">>),
      ProcName(<<"v","m","t","o","o","l","s","d","2">>),
      ProcNoName,
      ProcFails("NoSuchProcess"),
      ProcFails("AccessDenied") }

ProcLists == UNION { [1..n -> ProcEntries] : n \in 0..MaxProcs }

is_suspicious_handlers == {"NoSuchProcess", "AccessDenied"}

\* is_suspicious(proc): the try body, then the except clause
is_suspicious(proc) ==
    LET body == CASE proc.kind = "name"   -> Return(Lower(proc.name) \in suspicious_processes)
                  [] proc.kind = "None"   -> Raise("AttributeError")
                  [] proc.kind = "raises" -> Raise(proc.exc)
    IN  IF body.kind = "raise" /\ Catches(is_suspicious_handlers, body.exc)
        THEN Return(FALSE)
        ELSE body

Futures == 1..Len(procs)

NoResult == [kind |-> "none", value |-> FALSE, exc |-> "none"]

ScanIdle ==
    /\ procs = <<>> /\ spc = "idle" /\ submitted = 0
    /\ task = <<>> /\ tres = <<>> /\ consumed = {} /\ pending = NoResult

\* psutil.process_iter(['name']) as the host gives it
EnumerateProcesses == IF hostProcs.static THEN {hostProcs.list} ELSE ProcLists

\* detect_suspicious_processes() is entered: the executor is created
ScanCall ==
    /\ spc = "idle"
    /\ \E ps \in EnumerateProcesses :
         /\ procs' = ps
         /\ task' = [i \in 1..Len(ps) |-> "unsubmitted"]
         /\ tres' = [i \in 1..Len(ps) |-> NoResult]
    /\ spc' = "submit"
    /\ submitted' = 0
    /\ consumed' = {}
    /\ pending' = NoResult
    /\ UNCHANGED <<envVars, detectVars>>

\* one executor.submit(is_suspicious, proc) of the list comprehension
Submit ==
    /\ spc = "submit"
    /\ submitted < Len(procs)
    /\ submitted' = submitted + 1
    /\ task' = [task EXCEPT ![submitted + 1] = "queued"]
    /\ UNCHANGED <<envVars, detectVars, procs, spc, tres, consumed, pending>>

\* the list of futures is complete: as_completed(futures) starts
SubmitDone ==
    /\ spc = "submit"
    /\ submitted = Len(procs)
    /\ spc' = "consume"
    /\ UNCHANGED <<envVars, detectVars, procs, submitted, task, tres, consumed, pending>>

\* a worker thread runs one queued is_suspicious(proc) to its end (the pool has
\* min(32, cpu_count + 4) workers, more than the processes of the model, so a
\* queued task never waits for a free worker)
WorkerRun(i) ==
    /\ task[i] = "queued"
    /\ task' = [task EXCEPT ![i] = "done"]
    /\ tres' = [tres EXCEPT ![i] = is_suspicious(procs[i])]
    /\ UNCHANGED <<envVars, detectVars, procs, spc, submitted, consumed, pending>>

\* as_completed yields a finished future and any() evaluates f.result()
Consume(i) ==
    /\ spc = "consume"
    /\ task[i] = "done"
    /\ i \notin consumed
    /\ consumed' = consumed \cup {i}
    /\ IF tres[i].kind = "raise"
       THEN /\ pending' = tres[i]
            /\ spc' = "shutdown"
       ELSE IF tres[i].value
            THEN /\ pending' = Return(TRUE)
                 /\ spc' = "shutdown"
            ELSE UNCHANGED <<pending, spc>>
    /\ UNCHANGED <<envVars, detectVars, procs, submitted, task, tres>>

\* as_completed is exhausted: any() is False
ConsumeEnd ==
    /\ spc = "consume"
    /\ consumed = Futures
    /\ pending' = Return(FALSE)
    /\ spc' = "shutdown"
    /\ UNCHANGED <<envVars, detectVars, procs, submitted, task, tres, consumed>>

ShutdownNoWait == TRUE

\* ThreadPoolExecutor.__exit__ is shutdown(wait=True): it joins the workers
ShutdownMayReturn == \A i \in Futures : task[i] = "done"

\* the with-block is left and the function returns or raises
ScanExit ==
    /\ spc = "shutdown"
    /\ ShutdownMayReturn
    /\ spc' = IF pending.kind = "raise" THEN "raised" ELSE "returned"
    /\ UNCHANGED <<envVars, detectVars, procs, submitted, task, tres, consumed, pending>>

\* The outcomes detect_suspicious_processes can have on a process list: the
\* first future as_completed yields whose result is not False decides.
ScanOutcomes(ps) ==
    LET rs == { is_suspicious(ps[i]) : i \in 1..Len(ps) } \ {Return(FALSE)}
    IN  IF rs = {} THEN {Return(FALSE)} ELSE rs


----------------------------------------------------------------------------
(* The host as the probes see it.                                          *)

Platforms == {"Windows", "Darwin", "Linux", "Other"}

vm_paths ==
    << "/Applications/VMware Tools",
       "/Applications/VirtualBox.app",
       "C:\\Program Files\\VMware\\VMware Tools",
       "C:\\Program Files\\Oracle\\VirtualBox Guest Additions" >>

driver_paths ==
    << "C:\\Windows\\System32\\drivers\\VBoxGuest.sys",
       "C:\\Windows\\System32\\drivers\\VBoxMouse.sys",
       "C:\\Windows\\System32\\drivers\\VBoxSF.sys" >>

sandbox_files ==
    << "/Applications/WindowsSandbox.app",
       "C:\\Program Files\\WindowsApps\\Microsoft.WindowsSandbox_" >>

Range(s) == { s[i] : i \in 1..Len(s) }

Paths == Range(vm_paths) \cup Range(driver_paths) \cup Range(sandbox_files)

Helpers == {"wmic", "sysctl hw.model", "ifconfig", "getmac",
            "sysctl machdep.cpu.features", "sysctl kern.hv_support"}

WinApis == {"IsProcessorFeaturePresent", "IsDebuggerPresent"}

Resources == Helpers \cup Paths \cup WinApis \cup {"/proc/cpuinfo", "parent process"}

\* What each kind of OS call can do: "hit" and "miss" are the two values the
\* probe tells apart, the others are the exceptions the call raises.
SubprocessOutcomes == {"hit", "miss", "CalledProcessError", "TimeoutExpired",
                       "FileNotFoundError", "PermissionError"}
PathOutcomes       == {"hit", "miss"}
FileReadOutcomes   == {"hit", "miss", "FileNotFoundError", "PermissionError"}
WinApiOutcomes     == {"hit", "miss", "AttributeError", "OSError"}
PsutilOutcomes     == {"hit", "miss", "NoSuchProcess", "AccessDenied"}

Possible(r) ==
    CASE r \in Helpers        -> SubprocessOutcomes
      [] r \in Paths          -> PathOutcomes
      [] r \in WinApis        -> WinApiOutcomes
      [] r = "/proc/cpuinfo"  -> FileReadOutcomes
      [] r = "parent process" -> PsutilOutcomes

\* the outcomes of the OS call on resource r on this host
Observe(r) == IF host[r] = "any" THEN Possible(r) ELSE {host[r]}

\* subprocess.check_output(..., timeout=3) leaves the helper exited (it ran to
\* its end and was waited for), killed and reaped (run() kills it and waits for it before it
\* raises TimeoutExpired) or never spawned (Popen raised).
HelperAfter(o) ==
    CASE o \in {"hit", "miss", "CalledProcessError"}     -> "exited"
      [] o = "TimeoutExpired"                             -> "killed and reaped"
      [] o \in {"FileNotFoundError", "PermissionError"}   -> "notspawned"

\* try: <call with outcome o, returning hit> except handlers: return False
Try(o, handlers) ==
    IF o \in {"hit", "miss"} THEN Return(o = "hit")
    ELSE IF Catches(handlers, o) THEN Return(FALSE)
    ELSE Raise(o)

\* A probe run: what it gave, the resources it touched, the raw outcome of its
\* OS call ("none" without one) and the state of its helper process.
Run(out, touched, raw, helper) ==
    [out |-> out, touched |-> touched, raw |-> raw, helper |-> helper]

NoRun == [probe |-> 0, touched |-> {}, raw |-> "none", helper |-> "none", out |-> "none"]

SubprocessProbe(r, handlers) ==
    { Run(Try(o, handlers), {r}, o, HelperAfter(o)) : o \in Observe(r) }

----------------------------------------------------------------------------
(* The probes.                                                             *)

\* HelperFunctions.check_paths_exist(paths): any() stops at the first path
\* that exists.
check_paths_exist(paths) ==
    LET Exists == { e \in [1..Len(paths) -> PathOutcomes] :
                      \A i \in 1..Len(paths) : e[i] \in Observe(paths[i]) }
        Hits(e) == { i \in 1..Len(paths) : e[i] = "hit" }
        First(e) == CHOOSE i \in Hits(e) : \A j \in Hits(e) : i <= j
    IN  { IF Hits(e) = {}
          THEN Run(Return(FALSE), Range(paths), "miss", "none")
          ELSE Run(Return(TRUE), { paths[i] : i \in 1..First(e) }, "hit", "none")
          : e \in Exists }

except_without_timeout == {"CalledProcessError"}

check_vm_hardware_except == {"CalledProcessError", "TimeoutExpired"}
check_mac_address_except == {"CalledProcessError", "TimeoutExpired"}
check_cpu_features_except_linux  == {"FileNotFoundError"}
check_cpu_features_except_darwin == {"CalledProcessError", "TimeoutExpired"}
check_hypervisor_except_windows  == {"AttributeError", "OSError"}
check_hypervisor_except_darwin   == {"CalledProcessError", "TimeoutExpired"}
detect_debugger_except_windows   == {"AttributeError", "OSError"}
detect_debugger_except_unix      == {"NoSuchProcess", "AccessDenied"}

check_vm_hardware ==
    IF platform = "Windows"
    THEN SubprocessProbe("wmic", check_vm_hardware_except)
    ELSE IF platform = "Darwin"
    THEN SubprocessProbe("sysctl hw.model", check_vm_hardware_except)
    ELSE { Run(Return(FALSE), {}, "none", "none") }

check_mac_address ==
    SubprocessProbe(IF platform # "Windows" THEN "ifconfig" ELSE "getmac",
                    check_mac_address_except)

check_vm_artifacts == check_paths_exist(vm_paths)

check_virtualbox_drivers ==
    IF platform # "Windows"
    THEN { Run(Return(FALSE), {}, "none", "none") }
    ELSE check_paths_exist(driver_paths)

check_cpu_features ==
    IF platform = "Linux"
    THEN { Run(Try(o, check_cpu_features_except_linux), {"/proc/cpuinfo"}, o, "none")
           : o \in Observe("/proc/cpuinfo") }
    ELSE IF platform = "Darwin"
    THEN SubprocessProbe("sysctl machdep.cpu.features", check_cpu_features_except_darwin)
    ELSE { Run(Return(FALSE), {}, "none", "none") }

check_hypervisor ==
    IF platform = "Windows"
    THEN { Run(Try(o, check_hypervisor_except_windows), {"IsProcessorFeaturePresent"}, o, "none")
           : o \in Observe("IsProcessorFeaturePresent") }
    ELSE IF platform = "Darwin"
    THEN SubprocessProbe("sysctl kern.hv_support", check_hypervisor_except_darwin)
    ELSE { Run(Return(FALSE), {}, "none", "none") }

check_sandbox_files == check_paths_exist(sandbox_files)

detect_debugger ==
    IF platform = "Windows"
    THEN { Run(Try(o, detect_debugger_except_windows), {"IsDebuggerPresent"}, o, "none")
           : o \in Observe("IsDebuggerPresent") }
    ELSE IF platform \in {"Darwin", "Linux"}
    THEN { Run(Try(o, detect_debugger_except_unix), {"parent process"}, o, "none")
           : o \in Observe("parent process") }
    ELSE { Run(Return(FALSE), {}, "none", "none") }

\* The loop's wall-clock time in milliseconds, as one call may measure it.
ElapsedMs == {1, 499, 500, 501}

TimingThresholdMs == 500

anti_timing_check ==
    { Run(Return(elapsed > TimingThresholdMs), {}, "none", "none") : elapsed \in ElapsedMs }

\* the outcomes of a scan of a process table that may be any list
AnyScanOutcomes == UNION { ScanOutcomes(ps) : ps \in ProcLists }

\* the whole scan, as one step of detect()
detect_suspicious_processes ==
    { Run(o, {"process table"},
          IF o.kind = "raise" THEN o.exc ELSE IF o.value THEN "hit" ELSE "miss",
          "none")
      : o \in IF hostProcs.static THEN ScanOutcomes(hostProcs.list) ELSE AnyScanOutcomes }

----------------------------------------------------------------------------
(* The aggregator: virtualpydetector.detect.                               *)

Probes == << "check_vm_hardware", "check_mac_address", "check_vm_artifacts",
             "check_virtualbox_drivers", "check_cpu_features", "check_hypervisor",
             "check_sandbox_files", "detect_debugger", "anti_timing_check",
             "detect_suspicious_processes" >>

NumProbes == Len(Probes)

PyBool(b) == IF b THEN "True" ELSE "False"

DetectIdle ==
    /\ pc = "idle" /\ calls = 0 /\ checks = <<>>
    /\ ret = [i \in 1..NumProbes |-> "none"]
    /\ invoked = [i \in 1..NumProbes |-> 0]
    /\ last = NoRun
    /\ timedout = {}
    /\ verdict = "none" /\ error = "none" /\ prev = "none"

\* the outcome of the call that has ended
Outcome == IF pc = "raised" THEN "raised" ELSE verdict

\* VPD.detect() is called (again)
DetectCall ==
    /\ pc \in {"idle", "returned", "raised"}
    /\ calls < MaxCalls
    /\ calls' = calls + 1
    /\ prev' = Outcome
    /\ pc' = "1"
    /\ checks' = <<>>
    /\ ret' = [i \in 1..NumProbes |-> "none"]
    /\ invoked' = [i \in 1..NumProbes |-> 0]
    /\ last' = NoRun
    /\ timedout' = {}
    /\ verdict' = "none"
    /\ error' = "none"
    /\ UNCHANGED <<envVars, scanVars>>

Pos == <<"1", "2", "3", "4", "5", "6", "7", "8", "9", "10", "any">>

\* element i of the list display: the probe is called; its value is appended,
\* or its exception leaves detect()
Element(i, runs) ==
    /\ pc = Pos[i]
    /\ \E r \in runs :
         /\ invoked' = [invoked EXCEPT ![i] = @ + 1]
         /\ last' = [probe |-> i, touched |-> r.touched, raw |-> r.raw, helper |-> r.helper,
                      out |-> IF r.out.kind = "return" THEN PyBool(r.out.value) ELSE "raised"]
         /\ timedout' = IF r.raw = "TimeoutExpired" THEN timedout \cup {i} ELSE timedout
         /\ IF r.out.kind = "return"
            THEN /\ checks' = Append(checks, r.out.value)
                 /\ ret' = [ret EXCEPT ![i] = PyBool(r.out.value)]
                 /\ pc' = Pos[i + 1]
                 /\ error' = error
            ELSE /\ pc' = "raised"
                 /\ error' = r.out.exc
                 /\ UNCHANGED <<checks, ret>>
    /\ UNCHANGED <<envVars, scanVars, calls, verdict, prev>>

Call_check_vm_hardware           == Element(1, check_vm_hardware)
Call_check_mac_address           == Element(2, check_mac_address)
Call_check_vm_artifacts          == Element(3, check_vm_artifacts)
Call_check_virtualbox_drivers    == Element(4, check_virtualbox_drivers)
Call_check_cpu_features          == Element(5, check_cpu_features)
Call_check_hypervisor            == Element(6, check_hypervisor)
Call_check_sandbox_files         == Element(7, check_sandbox_files)
Call_detect_debugger             == Element(8, detect_debugger)
Call_anti_timing_check           == Element(9, anti_timing_check)
Call_detect_suspicious_processes == Element(10, detect_suspicious_processes)

\* return any(checks)
DetectReturn ==
    /\ pc = "any"
    /\ verdict' = PyBool(any(checks))
    /\ pc' = "returned"
    /\ UNCHANGED <<envVars, scanVars, calls, checks, ret, invoked, last, timedout, error, prev>>

----------------------------------------------------------------------------
(* Specifications.                                                         *)

\* A host whose state may change from one OS call to the next.
VolatileHost ==
    /\ platform \in Platforms
    /\ host = [r \in Resources |-> "any"]
    /\ hostProcs = [static |-> FALSE, list |-> <<>>]

\* A host whose state never changes: a quiet physical machine (every probe's
\* OS call answers "miss") with at most one anomaly, and a fixed process table.
QuietHost == [r \in Resources |-> "miss"]

StaticHosts ==
    {QuietHost} \cup
    UNION { { [QuietHost EXCEPT ![r] = o] : o \in Possible(r) } : r \in Resources }

StaticProcTables ==
    { <<>>,
      << ProcName(<<"v","m","t","o","o","l","s","d","2">>) >>,
      << ProcName(<<"v","m","t","o","o","l","s","d">>) >>,
      << ProcNoName, ProcName(<<"v","m","t","o","o","l","s","d">>) >> }

StaticHost ==
    /\ platform \in Platforms
    /\ host \in StaticHosts
    /\ hostProcs \in { [static |-> TRUE, list |-> ps] : ps \in StaticProcTables }

Detect ==
    \/ DetectCall
    \/ Call_check_vm_hardware
    \/ Call_check_mac_address
    \/ Call_check_vm_artifacts
    \/ Call_check_virtualbox_drivers
    \/ Call_check_cpu_features
    \/ Call_check_hypervisor
    \/ Call_check_sandbox_files
    \/ Call_detect_debugger
    \/ Call_anti_timing_check
    \/ Call_detect_suspicious_processes
    \/ DetectReturn

Scan ==
    \/ ScanCall
    \/ Submit
    \/ SubmitDone
    \/ \E i \in Futures : WorkerRun(i)
    \/ \E i \in Futures : Consume(i)
    \/ ConsumeEnd
    \/ ScanExit

Init == VolatileHost /\ DetectIdle /\ ScanIdle

Next == Detect

\* detect() called on a host that may change
Spec == Init /\ [][Next]_vars

InitStatic == StaticHost /\ DetectIdle /\ ScanIdle

\* detect() called repeatedly on a host that does not change
SpecStatic == InitStatic /\ [][Next]_vars

InitScan == VolatileHost /\ platform = "Linux" /\ DetectIdle /\ ScanIdle

NextScan == Scan

\* detect_suspicious_processes() called on its own, thread by thread
SpecScan == InitScan /\ [][NextScan]_vars

----------------------------------------------------------------------------
(* Properties.                                                             *)

CallEnded == pc \in {"returned", "raised"}
ScanEnded == spc \in {"returned", "raised"}

\* The two summaries of the scanner agree: a scan run thread by thread ends
\* with one of the outcomes the one-step scan of detect() can have.
ScanOutcomesSound == ScanEnded => pending \in ScanOutcomes(procs)

\* C1: when detect() returns, all ten probes have returned a boolean and the
\* verdict is their logical OR: True iff some probe returned True, False iff
\* every probe returned False.
C1_VerdictIsOr ==
    pc = "returned" =>
        /\ \A i \in 1..NumProbes : ret[i] \in {"True", "False"}
        /\ (verdict = "True")  <=> (\E i \in 1..NumProbes : ret[i] = "True")
        /\ (verdict = "False") <=> (\A i \in 1..NumProbes : ret[i] = "False")

\* C1, witness: detect() has returned True although only the process scanner
\* signalled
C1_Witness ==
    /\ pc = "returned" /\ verdict = "True"
    /\ ret[NumProbes] = "True"
    /\ \A i \in 1..(NumProbes - 1) : ret[i] = "False"

\* C2: failure containment: whatever failure a probe's OS call has, the probe
\* returns False and no exception leaves detect().
C2_FailureContainment ==
    /\ pc # "raised"
    /\ (last.raw \notin {"none", "hit", "miss"}) => (last.out = "False")

\* the probes that dispatch on platform.system() or are written per platform
PlatformProbes == 1..8

\* C3: platform totality: on a platform that is none of Windows, Darwin and
\* Linux a platform probe returns False without any OS call, and does not raise.
C3_PlatformTotality ==
    (platform = "Other" /\ last.probe \in PlatformProbes) =>
        (last.touched = {} /\ last.out = "False")

\* a name without its executable extension (".exe" in any letter case)
StripExe(n) ==
    IF Len(n) > 4 /\ Lower(SubSeq(n, Len(n) - 3, Len(n))) = <<".", "e", "x", "e">>
    THEN SubSeq(n, 1, Len(n) - 4)
    ELSE n

\* C4: the comparison of a process name is case-insensitive and exact up to
\* the executable extension: it matches iff the name, lowered and without
\* its extension, is a denylist entry.
C4_DenylistMatch ==
    \A i \in Futures :
        (task[i] = "done" /\ procs[i].kind = "name") =>
            ((tres[i] = Return(TRUE)) <=>
                (Lower(StripExe(procs[i].name)) \in suspicious_processes))

\* C5: when a detect() call has ended, every probe was invoked exactly once,
\* whatever the other probes did.
C5_EveryProbeOnce ==
    CallEnded => \A i \in 1..NumProbes : invoked[i] = 1

\* C6: on a host whose state does not change, a detect() call ends as the
\* call before it did.
C6_Idempotent ==
    (CallEnded /\ prev # "none") => (Outcome = prev)

\* the comparison the code makes of a process with the denylist
Matches(proc) == proc.kind = "name" /\ Lower(proc.name) \in suspicious_processes

\* C7: a comparison that fails (a psutil error, a name that is not available)
\* counts as not matched, and the scan returns True iff some process matches.
C7_ComparisonFailureContained ==
    /\ \A i \in Futures :
          (task[i] = "done" /\ procs[i].kind # "name") => (tres[i] = Return(FALSE))
    /\ ScanEnded =>
          (spc = "returned" /\ pending = Return(\E i \in Futures : Matches(procs[i])))

\* C8 as stated: once the caller has retrieved a match, the function can
\* return, whatever comparison tasks are still outstanding.
C8_ReturnsWithoutWaiting ==
    (spc = "shutdown" /\ pending = Return(TRUE)) => ENABLED ScanExit

\* C8 as amended: the caller retrieves no result before every task is
\* dispatched, stops retrieving at the first match and then leaves with True,
\* and the function ends only when every task has finished.
C8_ReturnsAfterAllTasks ==
    /\ (spc \notin {"idle", "submit"}) => (submitted = Len(procs))
    /\ (consumed # {}) => (submitted = Len(procs))
    /\ (\E i \in consumed : tres[i] = Return(TRUE)) =>
          (pending = Return(TRUE) /\ spc \in {"shutdown", "returned"})
    /\ Cardinality({ i \in consumed : tres[i] # Return(FALSE) }) <= 1
    /\ ScanEnded => \A i \in Futures : task[i] = "done"

\* C8, witness: the scan has returned True on the first match, every task has
\* finished, and some finished task's result was never retrieved
C8_Witness ==
    /\ spc = "returned" /\ pending = Return(TRUE)
    /\ consumed # Futures
    /\ \A i \in Futures : task[i] = "done"

InOrderOutcome(ps) ==
    LET Deciding == { i \in 1..Len(ps) : is_suspicious(ps[i]) # Return(FALSE) }
    IN  IF Deciding = {} THEN Return(FALSE)
        ELSE is_suspicious(ps[CHOOSE i \in Deciding : \A j \in Deciding : i <= j])

\* C10: the outcome of a scan is the same under every schedule of the
\* comparison tasks: it is the outcome of the schedule in submission order.
C10_ScheduleIndependent ==
    ScanEnded => (pending = InOrderOutcome(procs))

====
